---- MODULE Spec2Model ----
(***************************************************************************)
(* State-machine model of src/main.js (snake game): the globals of the     *)
(* script, the Snake object the global `snake` points to, the keydown      *)
(* listeners registered on the document and the requestAnimationFrame      *)
(* callbacks that are pending.  One action per button handler, one for a   *)
(* keydown event and one for an animation frame of the browser.            *)
(***************************************************************************)
EXTENDS Integers, Sequences, FiniteSets

(* ---------------- program constants (src/main.js:5-22) ----------------- *)
rows == 30
cols == 30
kUp == 0
kDown == 1
kLeft == 2
kRight == 3
kDx == [d \in 0..3 |-> IF d = kLeft THEN -1 ELSE IF d = kRight THEN 1 ELSE 0]
kDy == [d \in 0..3 |-> IF d = kUp THEN -1 ELSE IF d = kDown THEN 1 ELSE 0]
snakeHeadColor == "orange"
snakeBodyColor == "green"
foodColor == "red"
TickMs == 250

\* JavaScript's undefined, for `start` and `prevTime` (timestamps are >= 0)
Undefined == -1

(* ---------------- bounds of the model ---------------------------------- *)
\* number of animation frames delivered
MaxFrames == 3
\* number of keydown events delivered
MaxKeys == 2
\* number of button clicks delivered
MaxClicks == 3
\* time between two animation frames: one tick, or a stall of five ticks
Deltas == {250, 1250}
\* SpecBody: a snake as drawn, frames one tick apart, Start after a game over
BodyFrames == 2
BodyClicks == 1
\* SpecOver: a snake as drawn, every button, the arrow keys, frames of one or
\* two ticks
OverFrames == 2
OverKeys == 1
OverClicks == 2
OverDeltas == {250, 500}
\* SpecPace: frames a part of a tick, one tick, two ticks and a part, eleven ticks
PaceFrames == 5
PaceKeys == 1
PaceClicks == 1
PaceDeltas == {100, 250, 600, 2750}
\* SpecLive: frames a part of a tick or one tick apart, delivered for ever
LiveFrames == 5
LiveClicks == 3
LiveDeltas == {100, 250}
\* the longest snake checkMove is called on in SpecCheckMove
MaxBody == 6
\* the keys of the keydown events
ArrowKeys == {"ArrowUp", "ArrowDown", "ArrowLeft", "ArrowRight"}
Keys == ArrowKeys \cup {"w", "x"}

VARIABLES
  gameStatus,        \* 'end' | 'run' | 'pause'
  start,             \* animation start time, or Undefined
  prevTime,          \* time of the frame that last processed a tick
  score,
  highestScore,
  body,              \* snake.body, head first: sequence of Blocks
  direction,         \* snake.direction (pending direction)
  lastMove,          \* snake.#lastMove (last committed direction)
  food,              \* Block
  paraScore,         \* score shown in #score
  paraHighestScore,  \* score shown in #highest-score
  listening,         \* keydown listeners of the current snake not yet aborted
  stale,             \* keydown listeners of discarded snakes, never aborted
  pending,           \* requestAnimationFrame callbacks waiting for a frame
  alerts,            \* alert('Game Over') calls made by the last step
  ticksRun,          \* ticks processed (eat or move) by the last step
  eats,              \* ticks of the last step that ate the food
  now,               \* timestamp of the last animation frame
  framesUsed,        \* animation frames, keydown events and clicks so far
  keysUsed,
  clicksUsed,
  ret,               \* what the last direct call of checkMove returned
  op                 \* the last step: its name, whether it changed nothing,
                     \* the status it began in, the direction a key asked for

vars == <<gameStatus, start, prevTime, score, highestScore, body, direction,
          lastMove, food, paraScore, paraHighestScore, listening, stale,
          pending, alerts, ticksRun, eats, now, framesUsed, keysUsed,
          clicksUsed, ret, op>>

(* ---------------- classes ---------------------------------------------- *)
Block(x, y, color) == [x |-> x, y |-> y, color |-> color]

Food(x, y) == Block(x, y, foodColor)

\* direction ^ 1
Verse(d) == IF d % 2 = 0 THEN d + 1 ELSE d - 1

\* new Snake(x, y, direction): the fields of g that belong to the snake.  The
\* listeners of the snake it replaces stay registered on the document.
Snake(g, x, y, d) ==
  [g EXCEPT !.direction = d,
            !.body = << Block(x, y, snakeHeadColor),
                        Block(x + kDx[Verse(d)], y + kDy[Verse(d)], snakeBodyColor) >>,
            !.lastMove = d,
            !.stale = g.stale + g.listening,
            !.listening = 0]

next(g) == [x |-> g.body[1].x + kDx[g.direction],
            y |-> g.body[1].y + kDy[g.direction]]

checkMoveFrom == 4

\* checkMove without the test of the walls
checkMoveNoWall(g) ==
  LET n == next(g) IN
  \A i \in (checkMoveFrom + 1)..Len(g.body) :
     ~(g.body[i].x = n.x /\ g.body[i].y = n.y)

\* checkMove with the scan of the body begun one segment earlier
checkMoveFrom3(g) ==
  LET n == next(g) IN
  IF n.x < 0 \/ n.x >= rows \/ n.y < 0 \/ n.y >= cols
  THEN FALSE
  ELSE \A i \in checkMoveFrom..Len(g.body) :
          ~(g.body[i].x = n.x /\ g.body[i].y = n.y)

checkMove(g) ==
  LET n == next(g) IN
  IF n.x < 0 \/ n.x >= rows \/ n.y < 0 \/ n.y >= cols
  THEN FALSE
  ELSE \A i \in (checkMoveFrom + 1)..Len(g.body) :
          ~(g.body[i].x = n.x /\ g.body[i].y = n.y)

eatFood(g) ==
  LET n == next(g) IN n.x = g.food.x /\ n.y = g.food.y

extend(g) ==
  LET n == next(g) IN
  [g EXCEPT !.body = << Block(n.x, n.y, snakeHeadColor) >>
                     \o << [g.body[1] EXCEPT !.color = snakeBodyColor] >>
                     \o Tail(g.body),
            !.lastMove = g.direction]

\* move without the pop of the last segment
moveNoPop(g) == extend(g)

move(g) ==
  LET e == extend(g) IN
  [e EXCEPT !.body = SubSeq(e.body, 1, Len(e.body) - 1)]

\* the guard taken against the pending direction instead of the last move
updateDirectionPending(g, d) ==
  IF d \div 2 = g.direction \div 2 THEN g ELSE [g EXCEPT !.direction = d]

updateDirection(g, d) ==
  IF d \div 2 = g.lastMove \div 2 THEN g ELSE [g EXCEPT !.direction = d]

bindKeys(g) == [g EXCEPT !.listening = g.listening + 1]

\* unbindKeys that aborts nothing
unbindKeysNothing(g) == g

unbindKeys(g) == [g EXCEPT !.listening = 0]

\* the switch of the keydown listener
KeyDirection(k) ==
  IF k \in {"w", "ArrowUp"} THEN kUp
  ELSE IF k \in {"s", "ArrowDown"} THEN kDown
  ELSE IF k \in {"a", "ArrowLeft"} THEN kLeft
  ELSE IF k \in {"d", "ArrowRight"} THEN kRight
  ELSE Undefined

(* ---------------- functions -------------------------------------------- *)
updateScores(g) ==
  [g EXCEPT !.paraHighestScore = g.highestScore, !.paraScore = g.score]

\* blockExist without the test of the food's own cell
blockExistNoFood(g, x, y) ==
  \E i \in 1..Len(g.body) : g.body[i].x = x /\ g.body[i].y = y

blockExist(g, x, y) ==
  \/ x = g.food.x /\ y = g.food.y
  \/ \E i \in 1..Len(g.body) : g.body[i].x = x /\ g.body[i].y = y

Grid == (0..(rows - 1)) \X (0..(cols - 1))

\* updateFood: the states it can end in, one per cell the do-while can
\* accept, that is every cell of the grid blockExist is false on
updateFood(g) ==
  LET free == {c \in Grid : ~blockExist(g, c[1], c[2])}
  IN { [g EXCEPT !.food.x = c[1], !.food.y = c[2]] : c \in free }

\* resetGame that also clears the highest score
resetGameAll(g) ==
  LET s == Snake([g EXCEPT !.start = Undefined, !.score = 0, !.highestScore = 0],
                 10, 10, kRight)
  IN [s EXCEPT !.food = Food(15, 15)]

\* resetGame that leaves `start` as it is
resetGameKeepStart(g) ==
  LET s == Snake([g EXCEPT !.score = 0], 10, 10, kRight)
  IN [s EXCEPT !.food = Food(15, 15)]

resetGame(g) ==
  LET s == Snake([g EXCEPT !.start = Undefined, !.score = 0], 10, 10, kRight)
  IN [s EXCEPT !.food = Food(15, 15)]

initGame(g) == updateScores(resetGame(g))

Max(a, b) == IF a >= b THEN a ELSE b

\* the for loop's iteration with move() in place of extend() after eating
tickPop(g) ==
  IF eatFood(g)
  THEN LET s == updateScores([g EXCEPT !.score = g.score + 1,
                                       !.highestScore = Max(g.score + 1, g.highestScore)])
       IN { [move(f) EXCEPT !.ticksRun = g.ticksRun + 1, !.eats = g.eats + 1]
            : f \in updateFood(s) }
  ELSE IF checkMove(g)
  THEN { [move(g) EXCEPT !.ticksRun = g.ticksRun + 1] }
  ELSE { [g EXCEPT !.gameStatus = "end", !.alerts = g.alerts + 1] }

\* one iteration of the for loop of `loop`: the states it can end in
tick(g) ==
  IF eatFood(g)
  THEN LET s == updateScores([g EXCEPT !.score = g.score + 1,
                                       !.highestScore = Max(g.score + 1, g.highestScore)])
       IN { [extend(f) EXCEPT !.ticksRun = g.ticksRun + 1, !.eats = g.eats + 1]
            : f \in updateFood(s) }
  ELSE IF checkMove(g)
  THEN { [move(g) EXCEPT !.ticksRun = g.ticksRun + 1] }
  ELSE { [g EXCEPT !.gameStatus = "end", !.alerts = g.alerts + 1] }

\* the for loop: n iterations, left at the first game over
RECURSIVE runTicks(_, _)
runTicks(S, n) ==
  IF n = 0 THEN S
  ELSE runTicks(UNION { IF r.gameStatus = "run" THEN tick(r) ELSE {r} : r \in S }, n - 1)

\* loop without the return after the alert: the next frame is requested
loopNoReturn(g, time) ==
  IF g.gameStatus = "end" \/ g.gameStatus = "pause" THEN {g}
  ELSE LET g1 == IF g.start = Undefined
                 THEN [g EXCEPT !.start = time, !.prevTime = time]
                 ELSE g
           ticks == (time - g1.prevTime) \div TickMs
       IN { [r EXCEPT !.prevTime = IF ticks >= 1 THEN time ELSE r.prevTime,
                      !.pending = r.pending + 1]
            : r \in runTicks({g1}, ticks) }

\* loop with the baseline advanced by whole ticks, the remainder kept
loopKeepRemainder(g, time) ==
  IF g.gameStatus = "end" \/ g.gameStatus = "pause" THEN {g}
  ELSE LET g1 == IF g.start = Undefined
                 THEN [g EXCEPT !.start = time, !.prevTime = time]
                 ELSE g
           ticks == (time - g1.prevTime) \div TickMs
       IN { IF r.gameStatus = "end" THEN r
            ELSE [r EXCEPT !.prevTime = r.prevTime + ticks * TickMs,
                           !.pending = r.pending + 1]
            : r \in runTicks({g1}, ticks) }

\* loop that asks for the next frame whatever the status
loopAlwaysRequests(g, time) ==
  IF g.gameStatus = "end" \/ g.gameStatus = "pause"
  THEN {[g EXCEPT !.pending = g.pending + 1]}
  ELSE LET g1 == IF g.start = Undefined
                 THEN [g EXCEPT !.start = time, !.prevTime = time]
                 ELSE g
           ticks == (time - g1.prevTime) \div TickMs
       IN { IF r.gameStatus = "end" THEN r
            ELSE [r EXCEPT !.prevTime = IF ticks >= 1 THEN time ELSE r.prevTime,
                           !.pending = r.pending + 1]
            : r \in runTicks({g1}, ticks) }

\* loop(time): the states one callback can end in
loop(g, time) ==
  IF g.gameStatus = "end" \/ g.gameStatus = "pause" THEN {g}
  ELSE LET g1 == IF g.start = Undefined
                 THEN [g EXCEPT !.start = time, !.prevTime = time]
                 ELSE g
           ticks == (time - g1.prevTime) \div TickMs
       IN { IF r.gameStatus = "end" THEN r
            ELSE [r EXCEPT !.prevTime = IF ticks >= 1 THEN time ELSE r.prevTime,
                           !.pending = r.pending + 1]
            : r \in runTicks({g1}, ticks) }

\* an animation frame runs the n callbacks requested before it, each with the
\* frame's timestamp
RECURSIVE runCallbacks(_, _, _)
runCallbacks(S, time, n) ==
  IF n = 0 THEN S
  ELSE runCallbacks(UNION { loop(r, time) : r \in S }, time, n - 1)

(* ---------------- state as a record ------------------------------------ *)
G == [gameStatus |-> gameStatus, start |-> start, prevTime |-> prevTime,
      score |-> score, highestScore |-> highestScore, body |-> body,
      direction |-> direction, lastMove |-> lastMove, food |-> food,
      paraScore |-> paraScore, paraHighestScore |-> paraHighestScore,
      listening |-> listening, stale |-> stale, pending |-> pending,
      alerts |-> 0, ticksRun |-> 0, eats |-> 0]

Set(r) ==
  /\ gameStatus' = r.gameStatus
  /\ start' = r.start
  /\ prevTime' = r.prevTime
  /\ score' = r.score
  /\ highestScore' = r.highestScore
  /\ body' = r.body
  /\ direction' = r.direction
  /\ lastMove' = r.lastMove
  /\ food' = r.food
  /\ paraScore' = r.paraScore
  /\ paraHighestScore' = r.paraHighestScore
  /\ listening' = r.listening
  /\ stale' = r.stale
  /\ pending' = r.pending
  /\ alerts' = r.alerts
  /\ ticksRun' = r.ticksRun
  /\ eats' = r.eats

requestAnimationFrame(g) == [g EXCEPT !.pending = g.pending + 1]

(* ---------------- handlers of main() ----------------------------------- *)
btnStart(g) ==
  IF g.gameStatus # "end" THEN g
  ELSE requestAnimationFrame(bindKeys([resetGame(g) EXCEPT !.gameStatus = "run"]))

\* the pause handler without its test of the status
btnPauseNoGuard(g) ==
  unbindKeys([g EXCEPT !.gameStatus = "pause", !.start = Undefined])

\* the pause handler that leaves the start timestamp as it is
btnPauseKeepStart(g) ==
  IF g.gameStatus # "run" THEN g
  ELSE unbindKeys([g EXCEPT !.gameStatus = "pause"])

btnPause(g) ==
  IF g.gameStatus # "run" THEN g
  ELSE unbindKeys([g EXCEPT !.gameStatus = "pause", !.start = Undefined])

\* the resume handler without its request of a frame
btnResumeNoRequest(g) ==
  IF g.gameStatus # "pause" THEN g
  ELSE bindKeys([g EXCEPT !.gameStatus = "run"])

btnResume(g) ==
  IF g.gameStatus # "pause" THEN g
  ELSE requestAnimationFrame(bindKeys([g EXCEPT !.gameStatus = "run"]))

\* the restart handler without its test of the status
btnRestartNoGuard(g) == bindKeys(initGame(g))

btnRestart(g) ==
  IF g.gameStatus # "run" THEN g
  ELSE bindKeys(initGame(g))

btnEnd(g) ==
  IF g.gameStatus = "end" THEN g
  ELSE initGame([g EXCEPT !.gameStatus = "end"])

\* a keydown event reaches every listener still registered; those of
\* discarded snakes write to objects nothing reads
keydown(g, k) ==
  IF g.listening = 0 \/ KeyDirection(k) = Undefined THEN g
  ELSE updateDirection(g, KeyDirection(k))

\* what the last step was
Op(name, noop, dir) == [name |-> name, noop |-> noop, from |-> gameStatus, dir |-> dir]

\* the state main() leaves: the declarations of the globals, then initGame()
InitG ==
  initGame([gameStatus |-> "end", start |-> Undefined, prevTime |-> Undefined,
            score |-> 0, highestScore |-> 0, body |-> << >>,
            direction |-> kRight, lastMove |-> kRight, food |-> Food(0, 0),
            paraScore |-> 0, paraHighestScore |-> 0,
            listening |-> 0, stale |-> 0, pending |-> 0,
            alerts |-> 0, ticksRun |-> 0, eats |-> 0])

Init ==
  /\ gameStatus = InitG.gameStatus
  /\ start = InitG.start
  /\ prevTime = InitG.prevTime
  /\ score = InitG.score
  /\ highestScore = InitG.highestScore
  /\ body = InitG.body
  /\ direction = InitG.direction
  /\ lastMove = InitG.lastMove
  /\ food = InitG.food
  /\ paraScore = InitG.paraScore
  /\ paraHighestScore = InitG.paraHighestScore
  /\ listening = 0
  /\ stale = 0
  /\ pending = 0
  /\ alerts = 0
  /\ ticksRun = 0
  /\ eats = 0
  /\ now = 0
  /\ framesUsed = 0
  /\ keysUsed = 0
  /\ clicksUsed = 0
  /\ ret = FALSE
  /\ op = Op("main", FALSE, Undefined)

(* ---------------- actions ---------------------------------------------- *)
\* a click on a button whose handler takes the state to r
Click(name, r, maxClicks) ==
  /\ clicksUsed < maxClicks
  /\ Set(r)
  /\ clicksUsed' = clicksUsed + 1
  /\ op' = Op(name, r = G, Undefined)
  /\ UNCHANGED <<now, framesUsed, keysUsed, ret>>

\* a keydown event with key k
Key(k, maxKeys) ==
  /\ keysUsed < maxKeys
  /\ Set(keydown(G, k))
  /\ keysUsed' = keysUsed + 1
  /\ op' = Op("key", keydown(G, k) = G, KeyDirection(k))
  /\ UNCHANGED <<now, framesUsed, clicksUsed, ret>>

\* the browser's animation frame at `time`: every pending callback runs
Animate(time, maxFrames) ==
  /\ framesUsed < maxFrames
  /\ \E r \in runCallbacks({[G EXCEPT !.pending = 0]}, time, pending) :
       /\ Set(r)
       /\ op' = Op("frame", r = G, Undefined)
  /\ now' = time
  /\ framesUsed' = framesUsed + 1
  /\ UNCHANGED <<keysUsed, clicksUsed, ret>>

StartClick == Click("start", btnStart(G), MaxClicks)

PauseClick == Click("pause", btnPause(G), MaxClicks)

ResumeClick == Click("resume", btnResume(G), MaxClicks)

RestartClick == Click("restart", btnRestart(G), MaxClicks)

EndClick == Click("end", btnEnd(G), MaxClicks)

KeyDown == \E k \in Keys : Key(k, MaxKeys)

Frame == \E d \in Deltas : Animate(now + d, MaxFrames)

Next ==
  \/ StartClick
  \/ PauseClick
  \/ ResumeClick
  \/ RestartClick
  \/ EndClick
  \/ KeyDown
  \/ Frame

Spec == Init /\ [][Next]_vars

\* one run paced by frames of every length: Start, an arrow key, frames
PaceStart == Click("start", btnStart(G), PaceClicks)

PaceKey == \E k \in ArrowKeys : Key(k, PaceKeys)

PaceFrame == \E d \in PaceDeltas : pending > 0 /\ Animate(now + d, PaceFrames)

NextPace == PaceStart \/ PaceKey \/ PaceFrame

SpecPace == Init /\ [][NextPace]_vars

\* the game with the browser delivering animation frames as long as it may
LiveStart == Click("start", btnStart(G), LiveClicks)

LivePause == Click("pause", btnPause(G), LiveClicks)

LiveResume == Click("resume", btnResume(G), LiveClicks)

LiveRestart == Click("restart", btnRestart(G), LiveClicks)

LiveEnd == Click("end", btnEnd(G), LiveClicks)

LiveFrame == \E d \in LiveDeltas : Animate(now + d, LiveFrames)

NextLive ==
  \/ LiveStart
  \/ LivePause
  \/ LiveResume
  \/ LiveRestart
  \/ LiveEnd
  \/ LiveFrame

SpecLive == Init /\ [][NextLive]_vars /\ WF_vars(LiveFrame)

(* ---------------- checkMove on its own --------------------------------- *)
\* the cells the head of a snake is drawn from: two corners, the start cell
Heads == {<<0, 0>>, <<cols - 1, rows - 1>>, <<10, 10>>}

Adjacent(c) == {<<c[1] + kDx[d], c[2] + kDy[d]>> : d \in 0..3} \cap Grid

\* the snakes of n segments, as cells head first: each segment beside the one
\* before it, all inside the grid and on cells of their own
RECURSIVE Chains(_)
Chains(n) ==
  IF n = 1 THEN {<<h>> : h \in Heads}
  ELSE UNION { { Append(c, p) : p \in {q \in Adjacent(c[n - 1]) :
                                         \A i \in 1..(n - 1) : c[i] # q} }
               : c \in Chains(n - 1) }

\* the direction of the step that took the snake from cell b to cell a
StepDir(a, b) == CHOOSE d \in 0..3 : a = <<b[1] + kDx[d], b[2] + kDy[d]>>

\* a running game whose snake lies on the cells c and is about to go d.  The
\* food is where resetGame put it, except after one meal: updateFood has then
\* moved it off that cell, and no later meal has allowed it back
Playing(c, d) ==
  [InitG EXCEPT !.gameStatus = "run", !.start = 250, !.prevTime = 250,
                !.score = Len(c) - 2, !.highestScore = Len(c) - 2,
                !.paraScore = Len(c) - 2, !.paraHighestScore = Len(c) - 2,
                !.body = [i \in 1..Len(c) |->
                            Block(c[i][1], c[i][2],
                                  IF i = 1 THEN snakeHeadColor ELSE snakeBodyColor)],
                !.lastMove = StepDir(c[1], c[2]),
                !.direction = d,
                !.food = IF Len(c) = 3 THEN Food(20, 21) ELSE InitG.food,
                !.listening = 1, !.pending = 1]

InitCheckMove ==
  \E n \in 2..MaxBody : \E c \in Chains(n) :
    \E d \in 0..3 \ {Verse(StepDir(c[1], c[2]))} :
      LET g == Playing(c, d) IN
      /\ gameStatus = g.gameStatus
      /\ start = g.start
      /\ prevTime = g.prevTime
      /\ score = g.score
      /\ highestScore = g.highestScore
      /\ body = g.body
      /\ direction = g.direction
      /\ lastMove = g.lastMove
      /\ food = g.food
      /\ paraScore = g.paraScore
      /\ paraHighestScore = g.paraHighestScore
      /\ listening = g.listening
      /\ stale = 0
      /\ pending = g.pending
      /\ alerts = 0
      /\ ticksRun = 0
      /\ eats = 0
      /\ now = 250
      /\ framesUsed = 0
      /\ keysUsed = 0
      /\ clicksUsed = 0
      /\ ret = FALSE
      /\ op = Op("main", FALSE, Undefined)

\* snake.checkMove() called on the state as it is
CallCheckMove ==
  /\ op.name = "main"
  /\ ret' = checkMove(G)
  /\ op' = Op("checkMove", TRUE, Undefined)
  /\ UNCHANGED <<gameStatus, start, prevTime, score, highestScore, body,
                 direction, lastMove, food, paraScore, paraHighestScore,
                 listening, stale, pending, alerts, ticksRun, eats, now,
                 framesUsed, keysUsed, clicksUsed>>

NextCheckMove == CallCheckMove

SpecCheckMove == InitCheckMove /\ [][NextCheckMove]_vars

\* the game going on from a snake as drawn: frames one tick apart, and Start
\* once the game is over
BodyFrame == pending > 0 /\ Animate(now + TickMs, BodyFrames)

BodyStart == gameStatus = "end" /\ Click("start", btnStart(G), BodyClicks)

NextBody == BodyFrame \/ BodyStart

SpecBody == InitCheckMove /\ [][NextBody]_vars

\* the game going on from a snake as drawn, with every button and the arrow
\* keys: the runs that end on a wall or on the snake itself
OverStart == Click("start", btnStart(G), OverClicks)

OverPause == Click("pause", btnPause(G), OverClicks)

OverResume == Click("resume", btnResume(G), OverClicks)

OverRestart == Click("restart", btnRestart(G), OverClicks)

OverEnd == Click("end", btnEnd(G), OverClicks)

OverKey == \E k \in ArrowKeys : Key(k, OverKeys)

OverFrame == \E d \in OverDeltas : Animate(now + d, OverFrames)

NextOver ==
  \/ OverStart
  \/ OverPause
  \/ OverResume
  \/ OverRestart
  \/ OverEnd
  \/ OverKey
  \/ OverFrame

SpecOver == InitCheckMove /\ [][NextOver]_vars

(* ---------------- properties ------------------------------------------- *)
Cell(b) == <<b.x, b.y>>

InGrid(b) == 0 <= b.x /\ b.x < cols /\ 0 <= b.y /\ b.y < rows

Distinct(seq) == \A i, j \in 1..Len(seq) : i # j => Cell(seq[i]) # Cell(seq[j])

\* C1: in every reachable state the segments of the snake occupy pairwise
\* distinct cells: no tick moves the head onto a cell a segment still occupies.
C1_SegmentsDistinct == Distinct(body)

\* C2: in every reachable state the food's cell is the cell of no segment of
\* the snake, the head added by a grow included.
C2_FoodOffSnake == \A i \in 1..Len(body) : Cell(body[i]) # Cell(food)

C2_Witness == op.name = "frame" /\ eats = 1 /\ score = 1 /\ Cell(food) = <<0, 0>>

\* the changes of status the specification lists
ListedChange(s, t, o) ==
  \/ s = "end" /\ t = "run" /\ o.name = "start"
  \/ s = "run" /\ t = "pause" /\ o.name = "pause"
  \/ s = "pause" /\ t = "run" /\ o.name = "resume"
  \/ s = "run" /\ t = "end" /\ o.name = "frame" /\ alerts' = 1
  \/ s = "run" /\ t = "end" /\ o.name = "end"

\* C3 as stated: every change of status is Idle->Running by Start,
\* Running->Paused by Pause, Paused->Running by Resume, Running->Idle by a
\* collision in the loop or by End; Restart keeps the status.
C3_Original ==
  [][/\ gameStatus' # gameStatus => ListedChange(gameStatus, gameStatus', op')
     /\ op'.name = "restart" => gameStatus' = gameStatus]_vars

\* C3 amended: every change of status is one of those, or Paused->Idle by End;
\* Restart keeps the status.
C3_Transitions ==
  [][/\ gameStatus' # gameStatus =>
          \/ ListedChange(gameStatus, gameStatus', op')
          \/ gameStatus = "pause" /\ gameStatus' = "end" /\ op'.name = "end"
     /\ op'.name = "restart" => gameStatus' = gameStatus]_vars

C3_Witness == op.name = "end" /\ op.from = "pause" /\ gameStatus = "end"

progVars == <<gameStatus, start, prevTime, score, highestScore, body, direction,
              lastMove, food, paraScore, paraHighestScore, listening, stale,
              pending>>

\* C4: Start when the status is not Idle, Pause when it is not Running, Resume
\* when it is not Paused, Restart when it is not Running and End when it is
\* Idle change nothing: status, snake, food, scores, listeners and pending
\* frame callbacks stay as they are.
C4_WrongStatusNoOp ==
  [][(\/ op'.name = "start" /\ gameStatus # "end"
      \/ op'.name = "pause" /\ gameStatus # "run"
      \/ op'.name = "resume" /\ gameStatus # "pause"
      \/ op'.name = "restart" /\ gameStatus # "run"
      \/ op'.name = "end" /\ gameStatus = "end")
     => UNCHANGED progVars]_vars

C4_Witness ==
  op.name = "resume" /\ op.noop /\ gameStatus = "run" /\ pending = 1 /\ now > 0

\* the cells of a snake on the cells of b that has made k moves in direction
\* d and has not eaten: k new cells in front, the last k cells given up
Moved(b, d, k) ==
  [i \in 1..Len(b) |->
     IF i <= k THEN <<b[1].x + (k - i + 1) * kDx[d], b[1].y + (k - i + 1) * kDy[d]>>
     ELSE Cell(b[i - k])]

\* C5: when a tick finds that the snake neither eats nor can advance (wall or
\* its own body), the loop sets the status to Idle, notifies game over once,
\* runs no further tick of the frame, leaves the snake as the ticks before the
\* collision left it (the collision moves nothing) and requests no frame; and
\* game over is notified in no other situation: not by End, Pause, Restart,
\* Start, Resume or a key, and not by a frame of a game that can go on.
C5_GameOver ==
  [][/\ alerts' >= 1 =>
          /\ op'.name = "frame" /\ gameStatus = "run" /\ pending >= 1
          /\ alerts' = 1
          /\ gameStatus' = "end"
          /\ pending' = 0
          /\ ~eatFood(G') /\ ~checkMove(G')
          /\ ticksRun' < (now' - prevTime) \div TickMs
          /\ UNCHANGED <<direction, start, prevTime, listening, stale>>
          /\ Len(body') = Len(body) + eats' /\ score' = score + eats'
          /\ eats' = 0 =>
               /\ [i \in 1..Len(body') |-> Cell(body'[i])]
                    = Moved(body, direction, ticksRun')
               /\ UNCHANGED <<food, score, highestScore>>
          /\ ticksRun' = 0 => UNCHANGED <<body, lastMove>>
     /\ (/\ op'.name = "frame" /\ gameStatus = "run" /\ pending >= 1
         /\ start # Undefined /\ now' - prevTime >= TickMs
         /\ ~eatFood(G) /\ ~checkMove(G)) =>
          /\ alerts' = 1 /\ ticksRun' = 0 /\ gameStatus' = "end"
          /\ UNCHANGED <<body, lastMove, food, score>>
     /\ (op'.name = "frame" /\ gameStatus' # gameStatus) => alerts' = 1
     /\ (op'.name = "frame" /\ alerts' = 0 /\ gameStatus = "run") =>
          gameStatus' = "run" /\ pending' = pending
     /\ op'.name # "frame" => alerts' = 0]_vars

C5_Witness ==
  /\ op.name = "frame" /\ alerts = 1 /\ gameStatus = "end" /\ pending = 0
  /\ ticksRun = 1 /\ InGrid(next(G)) /\ Distinct(body)

\* what C6 says of a tick that takes the state g to r by eating
EatResult(g, r) ==
  /\ r.score = g.score + 1
  /\ r.highestScore = Max(g.score + 1, g.highestScore)
  /\ Len(r.body) = Len(g.body) + 1
  /\ Cell(r.body[1]) = Cell(g.food)
  /\ \A i \in 1..Len(g.body) : Cell(r.body[i + 1]) = Cell(g.body[i])
  /\ Cell(r.food) # Cell(g.food)
  /\ \A i \in 1..Len(r.body) : Cell(r.body[i]) # Cell(r.food)

\* C6: a tick on which the head's next cell is the food's adds 1 to the score,
\* makes the highest score max(score, highest score), adds the old food cell
\* as the new head without removing the tail, and moves the food to a cell
\* that is neither its old one nor a segment's; a frame adds to score and
\* length exactly the number of its ticks that ate.
C6_EatTick ==
  /\ [](gameStatus = "run" /\ eatFood(G) => \A r \in tick(G) : EatResult(G, r))
  /\ [][op'.name = "frame" =>
          /\ (gameStatus = "run" /\ eatFood(G) /\ ticksRun' = 1) => EatResult(G, G')
          /\ (eats' = 1 /\ Cell(body'[1]) = Cell(food)) =>
               /\ Len(body') = Len(body) + 1
               /\ Cell(food') # Cell(food)
               /\ \A i \in 1..Len(body') : Cell(body'[i]) # Cell(food')
          /\ score' = score + eats'
          /\ Len(body') = Len(body) + eats'
          /\ highestScore' = Max(score', highestScore)]_vars

C6_Witness ==
  /\ op.name = "frame" /\ eats = 1 /\ ticksRun = 5 /\ score = 1 /\ Len(body) = 3
  /\ gameStatus = "run" /\ eatFood(G)

\* C7: the highest score never decreases and is at least the score in every
\* state; Start, Restart and End set the score to 0 and leave the highest
\* score alone.
C7_HighestScore ==
  /\ [](highestScore >= score)
  /\ [][/\ highestScore' >= highestScore
        /\ (op'.name \in {"start", "restart", "end"} /\ ~op'.noop)
             => score' = 0 /\ highestScore' = highestScore]_vars

C7_Witness == op.name = "restart" /\ highestScore >= 1 /\ score = 0

\* C8: a key asking for a direction on the axis of the last committed move
\* leaves the pending direction as it is, any other becomes the pending
\* direction; so the pending direction is never the opposite of the last
\* committed one and the head's next cell is never the second segment's.
C8_NoReversal ==
  /\ [](direction # Verse(lastMove) /\ Cell(next(G)) # Cell(body[2]))
  /\ [][(op'.name = "key" /\ listening >= 1 /\ op'.dir # Undefined) =>
          direction' = IF op'.dir \div 2 = lastMove \div 2
                       THEN direction ELSE op'.dir]_vars

C8_Witness ==
  /\ op.name = "key" /\ op.from = "run" /\ listening = 1
  /\ op.dir = Verse(lastMove) /\ direction # lastMove

\* C9: Pause leaves body, pending direction, food, score and highest score
\* unchanged, and no step taken while the status stays Paused changes them.
C9_PauseKeepsState ==
  [][(\/ op'.name = "pause" /\ gameStatus = "run"
      \/ gameStatus = "pause" /\ gameStatus' = "pause")
     => UNCHANGED <<body, direction, lastMove, food, score, highestScore>>]_vars

C9_Witness ==
  /\ gameStatus = "pause" /\ op.name = "key" /\ op.from = "pause"
  /\ op.dir # Undefined /\ op.dir \div 2 # lastMove \div 2 /\ now > 0

\* C10: whenever the status is Paused no keydown listener is registered:
\* every listener ever bound has been released.
C10_NoListenerWhilePaused == gameStatus = "pause" => listening + stale = 0

\* the part of the state C11 names
RunState(r) == <<r.gameStatus, r.score, r.body, r.direction, r.lastMove,
                 r.food, r.start, r.highestScore>>

\* C11: Restart in Running leaves what Start from Idle leaves: score 0, a
\* snake of 2 segments with head (10,10) and second segment (9,10), pending
\* and last committed direction Right, the food on (15,15), status Running,
\* the tick baseline cleared, and the highest score as it was.
C11_RestartAsStart ==
  /\ [](gameStatus = "run" =>
          RunState(btnRestart(G)) = RunState(btnStart([G EXCEPT !.gameStatus = "end"])))
  /\ [][(op'.name \in {"start", "restart"} /\ ~op'.noop) =>
          /\ gameStatus' = "run" /\ score' = 0
          /\ Len(body') = 2
          /\ Cell(body'[1]) = <<10, 10>> /\ Cell(body'[2]) = <<9, 10>>
          /\ direction' = kRight /\ lastMove' = kRight
          /\ Cell(food') = <<15, 15>>
          /\ start' = Undefined
          /\ highestScore' = highestScore]_vars

C11_Witness ==
  /\ op.name = "restart" /\ op.from = "run" /\ ~op.noop
  /\ highestScore = 1 /\ start = Undefined /\ pending = 1 /\ direction = kRight


\* C12: in every reachable state every segment of the snake and the food lie
\* inside the grid, 0 <= x < cols and 0 <= y < rows.
C12_InsideGrid == InGrid(food) /\ \A i \in 1..Len(body) : InGrid(body[i])

C12_Witness ==
  /\ op.name = "frame" /\ alerts = 1 /\ ticksRun = 10
  /\ body[1].y = 0 /\ direction = kUp

\* C13: checkMove returns false exactly when the head's next cell lies
\* outside the grid or is the cell of a segment at index 4 or more (the fifth
\* segment on), and true otherwise, also when the next cell is that of a
\* segment at index 0 to 3; the call changes neither body nor direction.
C13_CheckMove ==
  [][op'.name = "checkMove" =>
       /\ ret' = ~(\/ ~InGrid(next(G))
                   \/ \E i \in 5..Len(body) : Cell(body[i]) = Cell(next(G)))
       /\ UNCHANGED <<body, direction, lastMove>>]_vars

C13_Witness ==
  /\ op.name = "checkMove" /\ ret = FALSE /\ InGrid(next(G))
  /\ Cell(body[Len(body)]) = Cell(next(G))

\* C14: a frame callback in Running with baseline prev and timestamp now
\* runs floor((now - prev) / 250) ticks, one after the other, unless a
\* collision ends the run before; when a tick ran and the game is not over
\* the baseline becomes now, and when no tick ran the baseline, the snake, the
\* food and the score are as before.
C14_TickCount ==
  [][(op'.name = "frame" /\ gameStatus = "run" /\ pending >= 1) =>
       LET prev == IF start = Undefined THEN now' ELSE prevTime
           n    == (now' - prev) \div TickMs
       IN /\ ticksRun' <= n
          /\ Cell(body'[1]) = <<body[1].x + ticksRun' * kDx[direction],
                                body[1].y + ticksRun' * kDy[direction]>>
          /\ score' = score + eats'
          /\ alerts' = 0 => /\ ticksRun' = n
                            /\ gameStatus' = "run"
                            /\ prevTime' = IF n >= 1 THEN now' ELSE prev
          /\ alerts' # 0 => /\ ticksRun' < n
                            /\ alerts' = 1
                            /\ gameStatus' = "end"
                            /\ ~checkMove(G') /\ ~eatFood(G')
          /\ n = 0 => /\ prevTime' = prev
                      /\ UNCHANGED <<body, food, score, highestScore,
                                     direction, lastMove>>]_vars

C14_Witness ==
  /\ op.name = "frame" /\ op.from = "run" /\ gameStatus = "run"
  /\ ticksRun = 2 /\ prevTime = now /\ (now - start) % TickMs = 100

\* C15: a frame callback requests the next one only if the status is Running
\* when it completes; callbacks that run while the status is Paused or Idle
\* run no tick, change nothing and request nothing, so after Pause, End or
\* game over no callback is pending until Resume or Start requests one.
C15_ChainStops ==
  /\ [][op'.name = "frame" =>
          /\ pending' >= 1 => gameStatus' = "run"
          /\ gameStatus' = "run" => pending' = pending
          /\ gameStatus' # "run" => pending' = 0
          /\ gameStatus # "run" =>
               /\ ticksRun' = 0 /\ alerts' = 0 /\ eats' = 0
               /\ UNCHANGED <<gameStatus, start, prevTime, score, highestScore,
                              body, direction, lastMove, food, paraScore,
                              paraHighestScore, listening, stale>>]_vars
  /\ [][pending' > pending =>
          /\ op'.name \in {"start", "resume"} /\ ~op'.noop
          /\ pending' = pending + 1]_vars

C15_Witness ==
  /\ op.name = "frame" /\ op.from = "pause" /\ ~op.noop
  /\ gameStatus = "pause" /\ pending = 0 /\ ticksRun = 0

\* C16: at most one frame callback is pending at any time, whatever the
\* interleaving of Start, Pause, Resume, Restart and End with the frames.
C16_OnePending == pending <= 1

\* C17: whenever the status is Running at least one frame callback is
\* pending, and a running game does not stall: with frames delivered at
\* increasing timestamps and no further click, a later frame runs a tick (a
\* move, a meal or the collision that ends the game).  Four frames are enough:
\* the one that sets the baseline and three of 100 ms.
C17_NeverStalls ==
  /\ [](gameStatus = "run" => pending >= 1)
  /\ \A f \in 0..(LiveFrames - 4) : \A c \in 0..LiveClicks :
       (gameStatus = "run" /\ framesUsed = f /\ clicksUsed = c)
         ~> (\/ clicksUsed > c
             \/ /\ framesUsed > f /\ op.name = "frame"
                /\ ticksRun + alerts >= 1)

C17_Witness ==
  /\ op.name = "frame" /\ gameStatus = "run" /\ pending >= 1
  /\ ticksRun = 1 /\ now - start = 300 /\ clicksUsed = 3 /\ framesUsed = 5

\* C18: the score text on the page matches the state after every handler
\* and every frame callback: the current score shown is score and the
\* highest score shown is highestScore, also after a game over followed by
\* Start.
C18_ScoreTextMatches == paraScore = score /\ paraHighestScore = highestScore

\* C19: the snake's length is score + 2 in every reachable state: it is 2
\* when a run is initialized with score 0, one more after each tick that adds
\* 1 to the score, and as before after every other tick, click and key.
C19_LengthIsScorePlus2 ==
  /\ [](Len(body) = score + 2)
  /\ [][/\ (op'.name \in {"start", "restart", "end"} /\ ~op'.noop) =>
              Len(body') = 2 /\ score' = 0
        /\ op'.name = "frame" =>
              /\ eats' <= ticksRun'
              /\ score' = score + eats'
              /\ Len(body') = Len(body) + eats'
        /\ (op'.name \in {"key", "pause", "resume"} \/ op'.noop) =>
              Len(body') = Len(body) /\ score' = score]_vars

C19_Witness ==
  /\ op.name = "frame" /\ eats = 1 /\ ticksRun >= 2
  /\ Len(body) = 3 /\ score = 1

\* C20: time spent Paused is never turned into ticks: the first frame
\* callback that runs in Running after a Resume runs no tick whatever its
\* timestamp and makes that timestamp the baseline of the ticks to come, also
\* when the callback requested before the Pause is still pending at the Resume.
C20_PausedTimeDropped ==
  /\ [](gameStatus = "pause" => start = Undefined)
  /\ [][(op'.name = "resume" /\ ~op'.noop) =>
          /\ gameStatus' = "run" /\ start' = Undefined /\ pending' >= 1
          /\ UNCHANGED <<body, direction, lastMove, food, score>>]_vars
  /\ [][(op'.name = "frame" /\ gameStatus = "run" /\ start = Undefined) =>
          /\ pending >= 1
          /\ ticksRun' = 0 /\ alerts' = 0 /\ eats' = 0
          /\ start' = now' /\ prevTime' = now'
          /\ gameStatus' = "run"
          /\ UNCHANGED <<body, direction, lastMove, food, score>>]_vars
  /\ [][(op.name = "resume" /\ ~op.noop /\ op'.name = "frame") =>
          ticksRun' = 0 /\ prevTime' = now']_vars

C20_Witness ==
  /\ op.name = "frame" /\ op.from = "run" /\ gameStatus = "run"
  /\ clicksUsed = 3 /\ pending = 2 /\ body[1].x > 10
  /\ ticksRun = 0 /\ start = now /\ prevTime = now

====
